---------------------------- MODULE Spec2Model ----------------------------
(***************************************************************************)
(* Model of the recurring-payment pipeline of recurring_payments.ipynb     *)
(* (the final cell: get_recurring_transactions and the functions it        *)
(* calls).                                                                 *)
(*                                                                         *)
(* A DataFrame is a record [columns, index, rows]: columns is the sequence *)
(* of column labels, rows the sequence of rows in the frame's own order    *)
(* and index the sequence of their index labels (0, 1, ... in the frame    *)
(* read_csv gives).  A row is a function from the column labels to the     *)
(* cell values.  A text cell is a sequence of one-character strings.  A    *)
(* date is a whole day number: the data carries calendar dates, so         *)
(* Timedelta.days is their difference.  A Timedelta cell is <<days>> or    *)
(* <<>> (NaT).  A float is a fraction <<numerator, denominator>> or <<>>   *)
(* (NaN): means and tolerance bands are computed exactly, and for the day  *)
(* deltas of the bounds below (all under 10) IEEE doubles give the same    *)
(* comparisons and the same roundings.                                     *)
(***************************************************************************)
EXTENDS Integers, Sequences, FiniteSets, TLC

VARIABLES
    transactions,   \* the caller's DataFrame, as passed to the driver
    df,             \* the driver's local name df
    output,         \* the list generate_output builds
    pc              \* position in get_recurring_transactions

vars == <<transactions, df, output, pc>>

-----------------------------------------------------------------------------
(* Bounds of the model *)

MaxTrans  == 4      \* rows of a statement of Spec
MaxDay    == 2      \* latest day of a statement of Spec
MaxGroup  == 5      \* rows of a statement of SpecGroup and of SpecAmount
MaxGap    == 4      \* longest gap between two payments of SpecGroup
MaxRows   == 8      \* rows of a statement of SpecOrder
MaxAmount == 2      \* largest amount_cents of SpecAmount
MaxFirst  == 3      \* characters of the first description of SpecEntity
MaxOther  == 2      \* characters of each further description of SpecEntity
MaxDescs  == 2      \* descriptions of a column of SpecEntity
MaxKeyed  == 4      \* rows of a statement of SpecKeyword

-----------------------------------------------------------------------------
(* Text *)

UpperSeq == <<"A","B","C","D","E","F","G","H","I","J","K","L","M",
              "N","O","P","Q","R","S","T","U","V","W","X","Y","Z">>
LowerSeq == <<"a","b","c","d","e","f","g","h","i","j","k","l","m",
              "n","o","p","q","r","s","t","u","v","w","x","y","z">>
Digits   == {"0","1","2","3","4","5","6","7","8","9"}

Range(s) == {s[i] : i \in DOMAIN s}

\* \w of the re module
IsWordChar(c) == c \in Range(UpperSeq) \cup Range(LowerSeq) \cup Digits \cup {"_"}

\* \b at the gap before position i of s (1 <= i <= Len(s)+1)
WordBoundary(s, i) ==
    LET before == i > 1 /\ IsWordChar(s[i-1])
        after  == i <= Len(s) /\ IsWordChar(s[i])
    IN  before # after

\* the literal alternatives of date_pattern
NoiseWords ==
    { <<"J","A","N">>, <<"F","E","B">>, <<"M","A","R">>, <<"A","P","R">>,
      <<"M","A","Y">>, <<"J","U","N">>, <<"J","U","L">>, <<"A","U","G">>,
      <<"S","E","P">>, <<"O","C","T">>, <<"N","O","V">>, <<"D","E","C">>,
      <<"O","N">>, <<"B","C","C">>, <<"C","L","P">>, <<"A","T","M">>,
      <<"C","H">>, <<"F","T">>, <<"B","G","C">>, <<"D","D","R">>, <<"'">> }

\* the lengths at which (\d{2}|JAN|...|\') matches s at position i
AltLengths(s, i) ==
    { Len(w) : w \in { v \in NoiseWords :
                         /\ i + Len(v) - 1 <= Len(s)
                         /\ SubSeq(s, i, i + Len(v) - 1) = v } }
    \cup (IF i + 1 <= Len(s) /\ s[i] \in Digits /\ s[i+1] \in Digits
          THEN {2} ELSE {})

\* the length of the match of date_pattern that starts at position i, or 0
MatchLen(s, i) ==
    LET ok == { n \in AltLengths(s, i) :
                  WordBoundary(s, i) /\ WordBoundary(s, i + n) }
    IN  IF ok = {} THEN 0 ELSE CHOOSE n \in ok : \A m \in ok : n <= m

\* str.replace(date_pattern, ''): re.sub, scanning from position i
RECURSIVE RemoveNoiseFrom(_, _)
RemoveNoiseFrom(s, i) ==
    IF i > Len(s) THEN <<>>
    ELSE LET n == MatchLen(s, i)
         IN  IF n > 0 THEN RemoveNoiseFrom(s, i + n)
             ELSE <<s[i]>> \o RemoveNoiseFrom(s, i + 1)

RemoveNoise(s) == RemoveNoiseFrom(s, 1)

\* str.replace(r'\*|\.|\,', ' ', regex = True)
ReplacePunct(s) == [i \in DOMAIN s |-> IF s[i] \in {"*", ".", ","} THEN " " ELSE s[i]]

LowerChar(c) ==
    IF \E i \in DOMAIN UpperSeq : UpperSeq[i] = c
    THEN LowerSeq[CHOOSE i \in DOMAIN UpperSeq : UpperSeq[i] = c]
    ELSE c

\* str.lower()
Lower(s) == [i \in DOMAIN s |-> LowerChar(s[i])]

\* x.split(' ', 1)[0]: the text before the first space
FirstWord(s) ==
    IF \E i \in DOMAIN s : s[i] = " "
    THEN SubSeq(s, 1, (CHOOSE i \in DOMAIN s :
                          s[i] = " " /\ \A j \in 1..(i-1) : s[j] # " ") - 1)
    ELSE s

CleanDesc(s) == Lower(ReplacePunct(RemoveNoise(s)))

Credit == <<"c","r","e","d","i","t">>
Debit  == <<"d","e","b","i","t">>

\* lambda x: 'credit' if x == True else 'debit'
TypeOf(income) == IF income = TRUE THEN Credit ELSE Debit

Keyword(clean, type) == FirstWord(clean) \o <<" ">> \o type

-----------------------------------------------------------------------------
(* DataFrames *)

NaN == <<>>

IsNaN(v) == v = NaN

HasColumn(frame, c) == c \in Range(frame.columns)

\* frame[c], as the sequence of its cells in row order
Column(frame, c) == [i \in DOMAIN frame.rows |-> frame.rows[i][c]]

\* frame[c] = vals: the column is replaced, or appended when it is new
SetColumn(frame, c, vals) ==
    [ columns |-> IF HasColumn(frame, c) THEN frame.columns
                  ELSE Append(frame.columns, c),
      index   |-> frame.index,
      rows    |-> [i \in DOMAIN frame.rows |-> (c :> vals[i]) @@ frame.rows[i]] ]

\* frame.drop(frame.columns[:2], axis = 1)
DropFirstTwo(frame) ==
    LET gone == {frame.columns[i] : i \in DOMAIN frame.columns \cap 1..2}
        kept == SubSeq(frame.columns, 3, Len(frame.columns))
    IN  [ columns |-> kept,
          index   |-> frame.index,
          rows    |-> [i \in DOMAIN frame.rows |->
                         [c \in (DOMAIN frame.rows[i]) \ gone |-> frame.rows[i][c]]] ]

\* the rows of frame at the positions pos, in that order, index labels kept
TakeRows(frame, pos) ==
    [ columns |-> frame.columns,
      index   |-> [k \in DOMAIN pos |-> frame.index[pos[k]]],
      rows    |-> [k \in DOMAIN pos |-> frame.rows[pos[k]]] ]

\* the positions 1..n at which the sequence of booleans mask is true, ascending
RECURSIVE WhereFrom(_, _)
WhereFrom(mask, i) ==
    IF i > Len(mask) THEN <<>>
    ELSE (IF mask[i] THEN <<i>> ELSE <<>>) \o WhereFrom(mask, i + 1)

Where(mask) == WhereFrom(mask, 1)

\* Series.unique(): the distinct values in order of first appearance
RECURSIVE UniqueFrom(_, _)
UniqueFrom(s, i) ==
    IF i > Len(s) THEN <<>>
    ELSE (IF \E j \in 1..(i-1) : s[j] = s[i] THEN <<>> ELSE <<s[i]>>)
         \o UniqueFrom(s, i + 1)

unique(s) == UniqueFrom(s, 1)

\* insertion of position p into the sorted list of positions, after its equals
RECURSIVE InsertByKey(_, _, _)
InsertByKey(sorted, p, key) ==
    IF sorted = <<>> THEN <<p>>
    ELSE IF key[p] < key[Head(sorted)] THEN <<p>> \o sorted
         ELSE <<Head(sorted)>> \o InsertByKey(Tail(sorted), p, key)

\* argsort of key, ascending: numpy's quicksort sorts a run of at most 16
\* elements by insertion, which keeps equal keys in their order
RECURSIVE ArgSortFrom(_, _)
ArgSortFrom(key, n) ==
    IF n = 0 THEN <<>>
    ELSE InsertByKey(ArgSortFrom(key, n - 1), n, key)

ArgSort(key) == ArgSortFrom(key, Len(key))

\* frame.sort_values(c), c a datetime column
sort_values(frame, c) ==
    TakeRows(frame, ArgSort([i \in DOMAIN frame.rows |-> frame.rows[i][c].day]))

\* pd.to_datetime on a cell of made_on
ToDatetime(v) == [dtype |-> "datetime64", day |-> v.day]

-----------------------------------------------------------------------------
(* Utility functions of the final cell *)

\* get_subdf selecting on the column 'type' in place of 'keyword'
get_subdf_by_type(frame, keyword) ==
    LET ty     == Column(frame, "type")
        sub_df == TakeRows(frame, Where([i \in DOMAIN ty |->
                      \E j \in DOMAIN ty :
                          frame.rows[j]["keyword"] = keyword /\ ty[i] = ty[j]]))
    IN  sort_values(sub_df, "made_on")

get_subdf(frame, keyword) ==
    LET kw     == Column(frame, "keyword")
        sub_df == TakeRows(frame, Where([i \in DOMAIN kw |-> kw[i] = keyword]))
    IN  sort_values(sub_df, "made_on")

\* daydelta with shift(-1): each date less the date of the next row
daydelta_shift_back(frame, date_col) ==
    LET process_df == sort_values(frame, date_col)
        d          == Column(process_df, date_col)
    IN  SetColumn(process_df, "daydelta",
                  [i \in DOMAIN d |->
                     IF i = Len(d) THEN NaN ELSE <<d[i].day - d[i+1].day>>])

\* process_df[date_col] - process_df[date_col].shift(): NaT in the first row
daydelta(frame, date_col) ==
    LET process_df == sort_values(frame, date_col)
        d          == Column(process_df, date_col)
    IN  SetColumn(process_df, "daydelta",
                  [i \in DOMAIN d |->
                     IF i = 1 THEN NaN ELSE <<d[i].day - d[i-1].day>>])

\* for index, row in sub_df.iterrows(): df.loc[index, c] = sub_df.loc[index, c]
\* (a first assignment creates the column, NaN in the rows not assigned)
AssignLoc(frame, sub_df, c) ==
    LET old(i)  == IF HasColumn(frame, c) THEN frame.rows[i][c] ELSE NaN
        from(i) == {k \in DOMAIN sub_df.index : sub_df.index[k] = frame.index[i]}
    IN  IF sub_df.index = <<>> THEN frame
        ELSE SetColumn(frame, c,
                 [i \in DOMAIN frame.rows |->
                    IF from(i) = {} THEN old(i)
                    ELSE sub_df.rows[CHOOSE k \in from(i) : TRUE][c]])

-----------------------------------------------------------------------------
(* Floats *)

Float(n) == <<n, 1>>

FMul(a, b) == IF IsNaN(a) \/ IsNaN(b) THEN NaN ELSE <<a[1] * b[1], a[2] * b[2]>>

FAdd(a, b) ==
    IF IsNaN(a) \/ IsNaN(b) THEN NaN ELSE <<a[1] * b[2] + b[1] * a[2], a[2] * b[2]>>

FSub(a, b) ==
    IF IsNaN(a) \/ IsNaN(b) THEN NaN ELSE <<a[1] * b[2] - b[1] * a[2], a[2] * b[2]>>

\* a <= b: false when either is NaN
FLeq(a, b) == ~IsNaN(a) /\ ~IsNaN(b) /\ a[1] * b[2] <= b[1] * a[2]

RECURSIVE FSum(_)
FSum(s) == IF s = <<>> THEN Float(0) ELSE FAdd(Head(s), FSum(Tail(s)))

\* Series.mean(): NaN cells are skipped; NaN when nothing is left
mean(s) ==
    LET vals == SelectSeq(s, LAMBDA v : ~IsNaN(v))
    IN  IF vals = <<>> THEN NaN
        ELSE FMul(FSum(vals), <<1, Len(vals)>>)

\* numpy's round(0): to the nearest whole number, a half to the even one
round(a) ==
    IF IsNaN(a) THEN NaN
    ELSE LET lo  == a[1] \div a[2]
             rem == a[1] % a[2]
         IN  IF 2 * rem < a[2] THEN Float(lo)
             ELSE IF 2 * rem > a[2] THEN Float(lo + 1)
             ELSE IF lo % 2 = 0 THEN Float(lo) ELSE Float(lo + 1)

\* s[-3:]
LastThree(s) == IF Len(s) <= 3 THEN s ELSE SubSeq(s, Len(s) - 2, Len(s))

-----------------------------------------------------------------------------
(* Main functions of the final cell *)

\* is_recurring(sub_df, 0.2) in calculate_recurring
Tolerance == <<2, 10>>

\* is_recurring with the undefined day deltas dropped from the window
is_recurring_defined_only(frame, tolerance) ==
    LET recent_trans == SelectSeq(LastThree(Column(frame, "daydelta_int")),
                                  LAMBDA v : ~IsNaN(v))
        avg_amount   == mean(recent_trans)
        lower_bound  == FMul(avg_amount, FSub(Float(1), tolerance))
        upper_bound  == FMul(avg_amount, FAdd(Float(1), tolerance))
    IN  \A i \in DOMAIN recent_trans :
            FLeq(lower_bound, recent_trans[i]) /\ FLeq(recent_trans[i], upper_bound)

is_recurring(frame, tolerance) ==
    LET recent_trans == LastThree(Column(frame, "daydelta_int"))
        avg_amount   == mean(recent_trans)
        lower_bound  == FMul(avg_amount, FSub(Float(1), tolerance))
        upper_bound  == FMul(avg_amount, FAdd(Float(1), tolerance))
    IN  \A i \in DOMAIN recent_trans :
            FLeq(lower_bound, recent_trans[i]) /\ FLeq(recent_trans[i], upper_bound)

\* split(): the maximal runs of non-space characters of s from position i on
RECURSIVE SplitFrom(_, _, _)
SplitFrom(s, i, word) ==
    IF i > Len(s) THEN (IF word = <<>> THEN <<>> ELSE <<word>>)
    ELSE IF s[i] = " "
         THEN (IF word = <<>> THEN <<>> ELSE <<word>>) \o SplitFrom(s, i + 1, <<>>)
         ELSE SplitFrom(s, i + 1, Append(word, s[i]))

split(s) == SplitFrom(s, 1, <<>>)

\* word in desc
Contains(word, desc) ==
    \E i \in 1..(Len(desc) - Len(word) + 1) : SubSeq(desc, i, i + Len(word) - 1) = word

\* strip(), of a text whose only white space is the space
RECURSIVE strip(_)
strip(s) ==
    IF s = <<>> THEN s
    ELSE IF Head(s) = " " THEN strip(Tail(s))
    ELSE IF s[Len(s)] = " " THEN strip(SubSeq(s, 1, Len(s) - 1))
    ELSE s

RECURSIVE CommonWords(_, _)
CommonWords(words, strings) ==
    IF words = <<>> THEN <<>>
    ELSE (IF \A k \in DOMAIN strings : Contains(Head(words), strings[k])
          THEN Head(words) \o <<" ">> ELSE <<>>)
         \o CommonWords(Tail(words), strings)

\* find_entity_name keeping a word only when it is a whole word of every
\* description
RECURSIVE CommonWholeWords(_, _)
CommonWholeWords(words, strings) ==
    IF words = <<>> THEN <<>>
    ELSE (IF \A k \in DOMAIN strings : Head(words) \in Range(split(strings[k]))
          THEN Head(words) \o <<" ">> ELSE <<>>)
         \o CommonWholeWords(Tail(words), strings)

find_entity_name_whole_words(data) ==
    LET strings == data
    IN  strip(CommonWholeWords(split(strings[1]), strings))

find_entity_name(data) ==
    LET strings == data
    IN  strip(CommonWords(split(strings[1]), strings))

\* get_recurring_keywords listing the keywords from the last row backwards
get_recurring_keywords_backwards(frame) ==
    LET rec == Column(frame, "recurring")
        kw  == Column(TakeRows(frame, Where([i \in DOMAIN rec |-> rec[i] = <<TRUE>>])),
                      "keyword")
    IN  unique([i \in DOMAIN kw |-> kw[Len(kw) + 1 - i]])

get_recurring_keywords(frame) ==
    LET rec == Column(frame, "recurring")
    IN  unique(Column(TakeRows(frame, Where([i \in DOMAIN rec |-> rec[i] = <<TRUE>>])),
                      "keyword"))

\* info_dict with period_days the mean of the whole column of day deltas
info_dict_all_deltas(frame, keyword) ==
    LET sub_df == get_subdf(frame, keyword)
    IN  [ entity_name          |-> find_entity_name(Column(sub_df, "clean_desc")),
          income               |-> sub_df.rows[1]["income"],
          period_days          |-> round(mean(Column(sub_df, "daydelta_int"))),
          typical_amount_cents |->
              round(mean([i \in DOMAIN sub_df.rows |->
                            Float(sub_df.rows[i]["amount_cents"])])) ]

\* info_dict with typical_amount_cents the mean of the last three amounts
info_dict_recent_amounts(frame, keyword) ==
    LET sub_df == get_subdf(frame, keyword)
    IN  [ entity_name          |-> find_entity_name(Column(sub_df, "clean_desc")),
          income               |-> sub_df.rows[1]["income"],
          period_days          |-> round(mean(LastThree(Column(sub_df, "daydelta_int")))),
          typical_amount_cents |->
              round(mean(LastThree([i \in DOMAIN sub_df.rows |->
                                      Float(sub_df.rows[i]["amount_cents"])]))) ]

\* the dictionary generate_output builds for one keyword
info_dict(frame, keyword) ==
    LET sub_df == get_subdf(frame, keyword)
    IN  [ entity_name          |-> find_entity_name(Column(sub_df, "clean_desc")),
          income               |-> sub_df.rows[1]["income"],
          period_days          |-> round(mean(LastThree(Column(sub_df, "daydelta_int")))),
          typical_amount_cents |->
              round(mean([i \in DOMAIN sub_df.rows |->
                            Float(sub_df.rows[i]["amount_cents"])])) ]

-----------------------------------------------------------------------------
(* The steps of the driver, as functions of the frame they are given *)

\* df['made_on'] = pd.to_datetime(df['made_on']), on the frame passed in
ConvertMadeOn(frame) ==
    SetColumn(frame, "made_on",
              [i \in DOMAIN frame.rows |-> ToDatetime(frame.rows[i]["made_on"])])

\* the frame clean_dataframe returns: a new one, without the first two columns
CleanDataframe(frame) ==
    LET dropped == DropFirstTwo(ConvertMadeOn(frame))
    IN  SetColumn(dropped, "type",
                  [i \in DOMAIN dropped.rows |-> TypeOf(dropped.rows[i]["income"])])

CleanDescription(frame) ==
    LET cleaned == SetColumn(frame, "clean_desc",
                       [i \in DOMAIN frame.rows |->
                          CleanDesc(frame.rows[i]["original_description"])])
    IN  SetColumn(cleaned, "keyword",
                  [i \in DOMAIN cleaned.rows |->
                     Keyword(cleaned.rows[i]["clean_desc"], cleaned.rows[i]["type"])])

\* the loop of calculate_daydelta over the keywords still to do
RECURSIVE DaydeltaLoop(_, _)
DaydeltaLoop(frame, keywords) ==
    IF keywords = <<>> THEN frame
    ELSE LET sub_df == daydelta(get_subdf(frame, Head(keywords)), "made_on")
         IN  DaydeltaLoop(AssignLoc(frame, sub_df, "daydelta"), Tail(keywords))

\* df['daydelta'].dt.days, as floats
Days(frame) ==
    [i \in DOMAIN frame.rows |->
       IF IsNaN(frame.rows[i]["daydelta"]) THEN NaN
       ELSE Float(frame.rows[i]["daydelta"][1])]

\* the loop of calculate_recurring over the keywords still to do
RECURSIVE RecurringLoop(_, _)
RecurringLoop(frame, keywords) ==
    IF keywords = <<>> THEN frame
    ELSE LET sub_df == get_subdf(frame, Head(keywords))
             marked == [ columns |-> sub_df.columns,
                         index   |-> sub_df.index,
                         rows    |-> [k \in DOMAIN sub_df.rows |->
                                        ("recurring" :> <<TRUE>>) @@ sub_df.rows[k]] ]
         IN  RecurringLoop(IF is_recurring(sub_df, Tolerance) = TRUE
                           THEN AssignLoc(frame, marked, "recurring")
                           ELSE frame,
                           Tail(keywords))

\* df['recurring'].fillna(False, inplace = True)
FillnaFalse(frame) ==
    SetColumn(frame, "recurring",
              [i \in DOMAIN frame.rows |->
                 IF IsNaN(frame.rows[i]["recurring"]) THEN <<FALSE>>
                 ELSE frame.rows[i]["recurring"]])

GenerateOutput(frame) ==
    LET recurring_keywords == get_recurring_keywords(frame)
    IN  [k \in DOMAIN recurring_keywords |-> info_dict(frame, recurring_keywords[k])]

\* the driver as a function of the frame it is given: the error it raises
\* ("" when it returns) and the list it returns
get_recurring_transactions(frame) ==
    LET described == CleanDescription(CleanDataframe(frame))
        keywords  == unique(Column(described, "keyword"))
        deltas    == DaydeltaLoop(described, keywords)
        flagged   == RecurringLoop(SetColumn(deltas, "daydelta_int", Days(deltas)),
                                   keywords)
    IN  IF ~HasColumn(deltas, "daydelta")
        THEN [raised |-> "KeyError: 'daydelta'", output |-> <<>>]
        ELSE IF ~HasColumn(flagged, "recurring")
        THEN [raised |-> "KeyError: 'recurring'", output |-> <<>>]
        ELSE [raised |-> "", output |-> GenerateOutput(FillnaFalse(flagged))]

-----------------------------------------------------------------------------
(* get_recurring_transactions: one action for each call it makes.  pc names *)
(* the call to make next, "return" the normal end, and "KeyError: 'c'" the  *)
(* end by the KeyError that reading the missing column c raises.            *)

clean_dataframe ==
    /\ pc = "clean_dataframe"
    /\ transactions' = ConvertMadeOn(transactions)
    /\ df' = CleanDataframe(transactions)
    /\ pc' = "clean_description"
    /\ UNCHANGED output

clean_description ==
    /\ pc = "clean_description"
    /\ df' = CleanDescription(df)
    /\ pc' = "calculate_daydelta"
    /\ UNCHANGED <<transactions, output>>

\* with no row there is no keyword, the loop assigns nothing and
\* df['daydelta'] is read from a frame that has no such column
calculate_daydelta ==
    /\ pc = "calculate_daydelta"
    /\ LET looped == DaydeltaLoop(df, unique(Column(df, "keyword")))
       IN  IF HasColumn(looped, "daydelta")
           THEN /\ df' = SetColumn(looped, "daydelta_int", Days(looped))
                /\ pc' = "calculate_recurring"
           ELSE /\ df' = looped
                /\ pc' = "KeyError: 'daydelta'"
    /\ UNCHANGED <<transactions, output>>

\* when is_recurring accepts no group nothing is assigned to 'recurring' and
\* df['recurring'] is read from a frame that has no such column
calculate_recurring ==
    /\ pc = "calculate_recurring"
    /\ LET looped == RecurringLoop(df, unique(Column(df, "keyword")))
       IN  IF HasColumn(looped, "recurring")
           THEN /\ df' = FillnaFalse(looped)
                /\ pc' = "generate_output"
           ELSE /\ df' = looped
                /\ pc' = "KeyError: 'recurring'"
    /\ UNCHANGED <<transactions, output>>

generate_output ==
    /\ pc = "generate_output"
    /\ output' = GenerateOutput(df)
    /\ pc' = "return"
    /\ UNCHANGED <<transactions, df>>

Next ==
    \/ clean_dataframe
    \/ clean_description
    \/ calculate_daydelta
    \/ calculate_recurring
    \/ generate_output

-----------------------------------------------------------------------------
(* The statements a run is given *)

TFL_CH == <<"T","F","L"," ","C","H">>
TFL_UK == <<"T","F","L",".","U","K">>
GYM    == <<"G","Y","M">>

CsvColumns ==
    <<"Unnamed: 0", "user_id", "made_on", "original_description",
      "amount_cents", "income">>

\* the frame pd.read_csv gives for the records recs (each a record of the
\* four fields of a transaction), made_on still text
read_csv(recs) ==
    [ columns |-> CsvColumns,
      index   |-> [i \in DOMAIN recs |-> i - 1],
      rows    |-> [i \in DOMAIN recs |->
                     [ c \in Range(CsvColumns) |->
                         CASE c = "Unnamed: 0"           -> i - 1
                           [] c = "user_id"              -> 1
                           [] c = "made_on"              ->
                                [dtype |-> "object", day |-> recs[i].day]
                           [] c = "original_description" -> recs[i].desc
                           [] c = "amount_cents"         -> recs[i].amount
                           [] c = "income"               -> recs[i].income ] ] ]

Start(recs) ==
    /\ transactions = read_csv(recs)
    /\ df = transactions
    /\ output = <<>>
    /\ pc = "clean_dataframe"

\* Spec: statements of up to MaxTrans debits of two payees on days 0..MaxDay
StatementRecords(n) ==
    [1..n -> [day : 0..MaxDay, desc : {TFL_CH, GYM}, amount : {1}, income : {FALSE}]]

Init == \E n \in 0..MaxTrans : \E recs \in StatementRecords(n) : Start(recs)

Spec == Init /\ [][Next]_vars

\* SpecGroup: the payments to one payee, given by the gaps between them,
\* listed oldest first or newest first
RECURSIVE DayOf(_, _)
DayOf(gaps, i) == IF i <= 1 THEN 0 ELSE DayOf(gaps, i - 1) + gaps[i - 1]

GroupRecords(n) ==
    { [i \in 1..n |->
         [ day    |-> DayOf(gaps, IF newestFirst THEN n + 1 - i ELSE i),
           desc   |-> TFL_CH, amount |-> 1, income |-> FALSE ]] :
      gaps \in [1..(n-1) -> 0..MaxGap], newestFirst \in BOOLEAN }

InitGroup == \E n \in 1..MaxGroup : \E recs \in GroupRecords(n) : Start(recs)

SpecGroup == InitGroup /\ [][Next]_vars

\* SpecOrder: statements of up to MaxRows same-day payments, debits of one
\* payee and credits of another
Payees == { [desc |-> TFL_CH, income |-> FALSE], [desc |-> TFL_UK, income |-> TRUE] }

OrderRecords(n) ==
    { [i \in 1..n |->
         [ day |-> 0, desc |-> who[i].desc, amount |-> 1, income |-> who[i].income ]] :
      who \in [1..n -> Payees] }

InitOrder == \E n \in 0..MaxRows : \E recs \in OrderRecords(n) : Start(recs)

SpecOrder == InitOrder /\ [][Next]_vars

\* SpecAmount: same-day payments to one payee, of amounts 0..MaxAmount
AmountRecords(n) ==
    [1..n -> [day : {0}, desc : {TFL_CH}, amount : 0..MaxAmount, income : {FALSE}]]

InitAmount == \E n \in 1..MaxGroup : \E recs \in AmountRecords(n) : Start(recs)

SpecAmount == InitAmount /\ [][Next]_vars

\* SpecKeyword: statements of up to MaxKeyed same-day payments of either
\* direction to one payee, described by its name alone, after a noise word
\* or after a punctuation character
ON_GYM  == <<"O","N"," ","G","Y","M">>
DOT_GYM == <<".","G","Y","M">>

KeywordRecords(n) ==
    [1..n -> [day : {0}, desc : {GYM, ON_GYM, DOT_GYM}, amount : {1}, income : BOOLEAN]]

InitKeyword == \E n \in 0..MaxKeyed : \E recs \in KeywordRecords(n) : Start(recs)

SpecKeyword == InitKeyword /\ [][Next]_vars

\* SpecEntity: find_entity_name called on a column of up to MaxDescs clean
\* descriptions, texts of the letters a and b and the space
Letters == {"a", "b", " "}

Texts(n) == UNION { [1..m -> Letters] : m \in 0..n }

\* the frame of the one column clean_desc that holds the texts descs
DescFrame(descs) ==
    [ columns |-> <<"clean_desc">>,
      index   |-> [i \in DOMAIN descs |-> i - 1],
      rows    |-> [i \in DOMAIN descs |-> [c \in {"clean_desc"} |-> descs[i]]] ]

InitEntity ==
    \E n \in 1..MaxDescs :
        \E first \in Texts(MaxFirst), others \in [2..n -> Texts(MaxOther)] :
            /\ transactions = DescFrame([i \in 1..n |->
                                           IF i = 1 THEN first ELSE others[i]])
            /\ df = transactions
            /\ output = <<>>
            /\ pc = "find_entity_name"

\* info_dict['entity_name'] = find_entity_name(sub_df['clean_desc'])
entity_name ==
    /\ pc = "find_entity_name"
    /\ output' = find_entity_name(Column(df, "clean_desc"))
    /\ pc' = "return"
    /\ UNCHANGED <<transactions, df>>

NextEntity == entity_name

SpecEntity == InitEntity /\ [][NextEntity]_vars

-----------------------------------------------------------------------------
(* What the claims speak of, read from the state *)

Raised == pc \in {"KeyError: 'daydelta'", "KeyError: 'recurring'"}

\* calculate_daydelta has returned
DeltasDone == HasColumn(df, "daydelta_int")

\* calculate_recurring has returned
ClassifyDone == pc \in {"generate_output", "return"}

\* the keywords of the statement, once clean_description has returned
Keywords == IF HasColumn(df, "keyword") THEN Range(Column(df, "keyword")) ELSE {}

\* the positions of the rows of df that carry keyword k
Members(k) == {i \in DOMAIN df.rows : df.rows[i]["keyword"] = k}

\* the day deltas of the group of k that are defined, oldest first
DefinedDeltas(k) ==
    SelectSeq(Column(get_subdf(df, k), "daydelta_int"), LAMBDA v : ~IsNaN(v))

\* the last min(3, n-1) of the n-1 day deltas a group of n rows has
RecencyWindow(k) ==
    LET d == DefinedDeltas(k)
        m == IF Len(d) < 3 THEN Len(d) ELSE 3
    IN  SubSeq(d, Len(d) - m + 1, Len(d))

\* every value of w lies in mean(w)*(1-t) .. mean(w)*(1+t)
WithinBand(w, t) ==
    \A i \in DOMAIN w :
        /\ FLeq(FMul(mean(w), FSub(Float(1), t)), w[i])
        /\ FLeq(w[i], FMul(mean(w), FAdd(Float(1), t)))

\* the tolerances tried: 0, 0.2, 0.5 and 1
Tolerances == { <<0, 10>>, <<2, 10>>, <<5, 10>>, <<10, 10>> }

-----------------------------------------------------------------------------
(* C1: for every date-sorted group of n >= 2 transactions and every        *)
(* tolerance t, is_recurring returns true if and only if every one of the  *)
(* last min(3, n-1) defined day deltas lies within mean*(1-t) ..           *)
(* mean*(1+t), the mean being that of exactly those deltas.                *)
C1_WindowOfDefinedDeltas ==
    DeltasDone =>
        \A k \in Keywords : \A t \in Tolerances :
            Cardinality(Members(k)) >= 2 =>
                (is_recurring(get_subdf(df, k), t) <=> WithinBand(RecencyWindow(k), t))

(* C2: a group of exactly two transactions is classified recurring for     *)
(* every tolerance, whatever its one gap is, and all its transactions are  *)
(* marked recurring.                                                       *)
C2_PairIsRecurring ==
    \A k \in Keywords :
        Cardinality(Members(k)) = 2 =>
            /\ DeltasDone => \A t \in Tolerances : is_recurring(get_subdf(df, k), t)
            /\ ClassifyDone => \A i \in Members(k) : df.rows[i]["recurring"] = <<TRUE>>

(* C3: on a statement that is not empty calculate_recurring ends without   *)
(* an error, also when no group is accepted, and leaves every transaction  *)
(* with a flag: true exactly when is_recurring accepted its group.         *)
C3_EveryRowFlagged ==
    transactions.rows # <<>> =>
        /\ pc # "KeyError: 'recurring'"
        /\ ClassifyDone =>
              \A i \in DOMAIN df.rows :
                  df.rows[i]["recurring"] =
                      <<is_recurring(get_subdf(df, df.rows[i]["keyword"]), Tolerance)>>

(* C4: the run on a statement of no transaction raises no error and        *)
(* returns the empty list.                                                 *)
C4_EmptyStatementReturns ==
    transactions.rows = <<>> =>
        /\ ~Raised
        /\ pc = "return" => output = <<>>

(* C5: a group of exactly one transaction gets no day delta, is not        *)
(* classified recurring, its transaction ends with the flag false, and     *)
(* neither is_recurring nor the run that holds the group raises an error.  *)
C5_SingletonNotRecurring ==
    \A k \in Keywords :
        Cardinality(Members(k)) = 1 =>
            /\ ~Raised
            /\ DeltasDone =>
                  /\ \A i \in Members(k) : IsNaN(df.rows[i]["daydelta_int"])
                  /\ ~is_recurring(get_subdf(df, k), Tolerance)
            /\ ClassifyDone => \A i \in Members(k) : df.rows[i]["recurring"] = <<FALSE>>

-----------------------------------------------------------------------------
(* The groups is_recurring accepts, in the order in which the scan of the  *)
(* statement from its first row first meets their keywords                 *)

Accepted(k) == is_recurring(get_subdf(df, k), Tolerance)

RECURSIVE AcceptedFrom(_)
AcceptedFrom(i) ==
    IF i > Len(df.rows) THEN <<>>
    ELSE LET k == df.rows[i]["keyword"]
         IN  (IF Accepted(k) /\ \A j \in 1..(i-1) : df.rows[j]["keyword"] # k
              THEN <<k>> ELSE <<>>) \o AcceptedFrom(i + 1)

AcceptedInOrder == AcceptedFrom(1)

\* the rows of df are the transactions of the statement, in its order
SameOrder ==
    /\ df.index = transactions.index
    /\ \A i \in DOMAIN df.rows :
          \A c \in {"original_description", "amount_cents", "income"} :
              df.rows[i][c] = transactions.rows[i][c]

(* C6: the list generate_output returns holds one summary for each group   *)
(* is_recurring accepted and none for another group, in the order in which *)
(* the keywords of the accepted groups are first met in the statement.     *)
C6_SummariesInFirstMetOrder ==
    pc = "return" =>
        /\ SameOrder
        /\ Len(output) = Len(AcceptedInOrder)
        /\ \A s \in DOMAIN output : output[s] = info_dict(df, AcceptedInOrder[s])

\* two summaries, of the debits first: the statement starts and ends with a
\* debit, and 'tfl credit' sorts before 'tfl debit'
C6_Witness ==
    /\ pc = "return"
    /\ Len(output) = 2
    /\ output[1].income = FALSE /\ output[2].income = TRUE
    /\ df.rows[1]["income"] = FALSE /\ df.rows[Len(df.rows)]["income"] = FALSE
    /\ \E i \in DOMAIN df.rows : df.rows[i]["income"] = TRUE

(* C7: the groups get_subdf gives for the keywords of df['keyword']        *)
(* .unique() partition the statement: every transaction is in exactly one  *)
(* group, no group is empty and together the groups are the statement.     *)
C7_GroupsPartition ==
    HasColumn(df, "keyword") =>
        LET kws    == unique(Column(df, "keyword"))
            placed == UNION {LET idx == get_subdf(df, kws[k]).index
                             IN  {<<k, a, idx[a]>> : a \in DOMAIN idx} : k \in DOMAIN kws}
        IN  /\ Len(df.rows) = Len(transactions.rows)
            /\ \A k \in DOMAIN kws : \E p \in placed : p[1] = k
            /\ \A p, q \in placed : p[3] = q[3] => p = q
            /\ {p[3] : p \in placed} = Range(df.index)

\* two groups, one of them of several transactions
C7_Witness ==
    /\ pc = "calculate_daydelta"
    /\ Cardinality(Keywords) = 2
    /\ \E k \in Keywords : Cardinality(Members(k)) >= 2

DayAt(i) == df.rows[i]["made_on"].day

Maximum(S) == CHOOSE v \in S : \A w \in S : w <= v

(* C8: after calculate_daydelta each group has exactly one transaction     *)
(* with no day delta, one of its earliest; every other one carries the     *)
(* whole days from the transaction before it in the group's date order: of *)
(* the transactions of one date, one carries the days since the date       *)
(* before and the others 0.  The deltas are whole and not negative, and    *)
(* there are as many undefined ones as keywords.                           *)
C8_DeltasOfDateOrder ==
    DeltasDone =>
        /\ \A k \in Keywords : \A i \in Members(k) :
              LET same    == {j \in Members(k) : DayAt(j) = DayAt(i)}
                  earlier == {DayAt(j) : j \in {m \in Members(k) : DayAt(m) < DayAt(i)}}
                  lead    == IF earlier = {} THEN NaN
                             ELSE Float(DayAt(i) - Maximum(earlier))
              IN  /\ Cardinality({j \in same : df.rows[j]["daydelta_int"] = lead}) = 1
                  /\ df.rows[i]["daydelta_int"] \in {lead, Float(0)}
        /\ Cardinality({i \in DOMAIN df.rows : IsNaN(df.rows[i]["daydelta_int"])})
              = Cardinality(Keywords)

\* a group listed out of date order, with two transactions on one day
C8_Witness ==
    /\ pc = "calculate_recurring"
    /\ \E k \in Keywords :
          /\ Cardinality(Members(k)) >= 3
          /\ \E i, j \in Members(k) : i < j /\ DayAt(i) > DayAt(j)
          /\ \E i, j \in Members(k) : i # j /\ DayAt(i) = DayAt(j)
          /\ \E i \in Members(k) : df.rows[i]["daydelta_int"] = Float(1)

-----------------------------------------------------------------------------
(* The gaps of a group, from the dates of the statement alone *)

\* the r-th date of the group of k, counted from the earliest
RankedDay(k, r) ==
    CHOOSE v \in {DayAt(i) : i \in Members(k)} :
        /\ Cardinality({i \in Members(k) : DayAt(i) < v}) < r
        /\ r <= Cardinality({i \in Members(k) : DayAt(i) <= v})

\* the last min(3, n-1) gaps between the n transactions of the group of k
LastGaps(k) ==
    LET n == Cardinality(Members(k))
        m == IF n - 1 < 3 THEN n - 1 ELSE 3
    IN  [q \in 1..m |-> RankedDay(k, n - m + q) - RankedDay(k, n - m + q - 1)]

RECURSIVE SumSeq(_)
SumSeq(s) == IF s = <<>> THEN 0 ELSE Head(s) + SumSeq(Tail(s))

\* the float p is a whole number nearest to total / count
NearestWhole(p, total, count) ==
    /\ ~IsNaN(p)
    /\ p[2] = 1
    /\ 2 * (count * p[1] - total) <= count
    /\ 2 * (total - count * p[1]) <= count

(* C9: for every group with a summary, period_days is the mean, rounded to *)
(* the nearest whole number, of the last min(3, n-1) day deltas of the     *)
(* group, the window is_recurring judged, and every delta of that window   *)
(* lies within the tolerance band around that mean.                        *)
C9_PeriodOfRecencyWindow ==
    pc = "return" =>
        /\ Len(output) = Len(AcceptedInOrder)
        /\ \A s \in DOMAIN output :
              LET w == LastGaps(AcceptedInOrder[s])
              IN  /\ w # <<>>
                  /\ NearestWhole(output[s].period_days, SumSeq(w), Len(w))
                  /\ \A q \in DOMAIN w :
                        /\ SumSeq(w) * (Tolerance[2] - Tolerance[1])
                              <= w[q] * Len(w) * Tolerance[2]
                        /\ w[q] * Len(w) * Tolerance[2]
                              <= SumSeq(w) * (Tolerance[2] + Tolerance[1])

\* a period of 3 days from gaps that are not all the same, after an
\* earlier gap of another length
C9_Witness ==
    /\ pc = "return"
    /\ Len(output) = 1
    /\ output[1].period_days = Float(3)
    /\ Len(df.rows) = 5
    /\ \E i \in DOMAIN df.rows : df.rows[i]["daydelta_int"] = Float(4)
    /\ \E i \in DOMAIN df.rows : df.rows[i]["daydelta_int"] = Float(0)

\* the statement with the rows at positions a and b exchanged
Exchanged(frame, a, b) ==
    [ columns |-> frame.columns,
      index   |-> frame.index,
      rows    |-> [i \in DOMAIN frame.rows |->
                     IF i = a THEN frame.rows[b]
                     ELSE IF i = b THEN frame.rows[a] ELSE frame.rows[i]] ]

\* amount_cents of the rows at the positions 1..i that are in the set S, summed
RECURSIVE AmountsUpTo(_, _)
AmountsUpTo(S, i) ==
    IF i = 0 THEN 0
    ELSE AmountsUpTo(S, i - 1)
         + (IF i \in S THEN transactions.rows[i]["amount_cents"] ELSE 0)

(* C10: typical_amount_cents of a recurring group is the mean, rounded to  *)
(* a whole number, of amount_cents over all the transactions of the group, *)
(* and it is the same when two neighbours of the group change places in    *)
(* the statement (every permutation of the group is a sequence of such     *)
(* exchanges, and the statements checked are closed under them).           *)
C10_TypicalAmountOfWholeGroup ==
    pc = "return" =>
        /\ Len(output) = Len(AcceptedInOrder)
        /\ \A s \in DOMAIN output :
              LET g == Members(AcceptedInOrder[s])
              IN  /\ NearestWhole(output[s].typical_amount_cents,
                                  AmountsUpTo(g, Len(df.rows)), Cardinality(g))
                  /\ \A a, b \in g :
                        (a < b /\ \A c \in g : ~(a < c /\ c < b)) =>
                          LET again == get_recurring_transactions(
                                           Exchanged(transactions, a, b))
                          IN  /\ again.raised = ""
                              /\ Len(again.output) = Len(output)
                              /\ again.output[s].typical_amount_cents
                                    = output[s].typical_amount_cents

\* five payments whose last three amounts are 0 and whose mean rounds to 1
C10_Witness ==
    /\ pc = "return"
    /\ Len(output) = 1
    /\ Len(df.rows) = 5
    /\ output[1].typical_amount_cents = Float(1)
    /\ \A i \in 3..5 : df.rows[i]["amount_cents"] = 0

-----------------------------------------------------------------------------
(* The words of a text by their places in it *)

\* the column find_entity_name was called on, once it has returned
EntityDone == pc = "return" /\ df.columns = <<"clean_desc">>

Descriptions == Column(df, "clean_desc")

\* the maximal runs of characters of s that are not spaces, as <<from, to>>
Runs(s) ==
    { r \in (DOMAIN s) \X (DOMAIN s) :
        /\ r[1] <= r[2]
        /\ \A k \in r[1]..r[2] : s[k] # " "
        /\ (r[1] = 1 \/ s[r[1] - 1] = " ")
        /\ (r[2] = Len(s) \/ s[r[2] + 1] = " ") }

\* the text w stands somewhere in the text d
OccursIn(w, d) == \E o \in 0..(Len(d) - Len(w)) : \A k \in DOMAIN w : d[o + k] = w[k]

\* the runs of the first text that stand somewhere in every text of strs
KeptRuns(strs) ==
    { r \in Runs(strs[1]) :
        \A d \in DOMAIN strs : OccursIn(SubSeq(strs[1], r[1], r[2]), strs[d]) }

\* the runs R of s, from left to right, with one space between two of them
RECURSIVE JoinRuns(_, _)
JoinRuns(s, R) ==
    IF R = {} THEN <<>>
    ELSE LET last == CHOOSE r \in R : \A q \in R : q[1] <= r[1]
         IN  (IF R \ {last} = {} THEN <<>> ELSE JoinRuns(s, R \ {last}) \o <<" ">>)
             \o SubSeq(s, last[1], last[2])

\* no space at either end of s and no two spaces side by side
SinglySpaced(s) ==
    /\ s # <<>> => s[1] # " " /\ s[Len(s)] # " "
    /\ \A k \in 1..(Len(s) - 1) : ~(s[k] = " " /\ s[k + 1] = " ")

-----------------------------------------------------------------------------
\* the first word of s: its first maximal run of characters that are not
\* spaces, the empty text when it has none
FirstToken(s) ==
    IF Runs(s) = {} THEN <<>>
    ELSE LET first == CHOOSE r \in Runs(s) : \A q \in Runs(s) : r[1] <= q[1]
         IN  SubSeq(s, first[1], first[2])

DirectionLabel(income) == IF income THEN <<"c","r","e","d","i","t">>
                          ELSE <<"d","e","b","i","t">>

(* C12: the keyword clean_description gives a transaction is the first     *)
(* word of its cleaned description, a space and "credit" or "debit"; so    *)
(* two transactions of one direction whose cleaned descriptions have the   *)
(* same first word carry the same keyword, also when the raw description   *)
(* starts with a noise word or a punctuation character.                    *)
C12_KeywordIsFirstWord ==
    HasColumn(df, "keyword") =>
        /\ \A i \in DOMAIN df.rows :
              df.rows[i]["keyword"] =
                  FirstToken(df.rows[i]["clean_desc"]) \o <<" ">>
                      \o DirectionLabel(df.rows[i]["income"])
        /\ \A i, j \in DOMAIN df.rows :
              /\ df.rows[i]["income"] = df.rows[j]["income"]
              /\ FirstToken(df.rows[i]["clean_desc"]) = FirstToken(df.rows[j]["clean_desc"])
              => df.rows[i]["keyword"] = df.rows[j]["keyword"]

-----------------------------------------------------------------------------
(* C13: a run of get_recurring_transactions works on a copy of the table   *)
(* it is given: no step of the run changes the table of the caller, which  *)
(* keeps its columns and the value of every field of every transaction.    *)
C13_CallerTableUnchanged == [][transactions' = transactions]_vars

-----------------------------------------------------------------------------
\* the last three entries of the day-delta column of the group of k
SlicedWindow(k) == LastThree(Column(get_subdf(df, k), "daydelta_int"))

\* the keywords of the transactions flagged recurring
FlaggedKeywords ==
    { df.rows[i]["keyword"] : i \in { j \in DOMAIN df.rows :
                                         df.rows[j]["recurring"] = <<TRUE>> } }

(* C14: the last three entries of the day-delta column of a group of at    *)
(* most three transactions include the undefined delta of its first        *)
(* transaction, and is_recurring then rejects the group for every          *)
(* tolerance; so every group is_recurring accepts, and every group with a  *)
(* summary in the output, has at least four transactions and a window of   *)
(* exactly three defined deltas.                                           *)
C14_AcceptedGroupsHaveFourRows ==
    /\ DeltasDone =>
          \A k \in Keywords : \A t \in Tolerances :
              /\ Cardinality(Members(k)) <= 3 =>
                    /\ \E i \in DOMAIN SlicedWindow(k) : IsNaN(SlicedWindow(k)[i])
                    /\ ~is_recurring(get_subdf(df, k), t)
              /\ is_recurring(get_subdf(df, k), t) =>
                    /\ Cardinality(Members(k)) >= 4
                    /\ Len(SlicedWindow(k)) = 3
                    /\ \A i \in DOMAIN SlicedWindow(k) : ~IsNaN(SlicedWindow(k)[i])
    /\ ClassifyDone =>
          \A k \in FlaggedKeywords : Cardinality(Members(k)) >= 4
    /\ pc = "return" =>
          /\ Len(output) = Cardinality(FlaggedKeywords)
          /\ output # <<>> => Len(df.rows) >= 4

\* a summary for a group of exactly four transactions, its three gaps not
\* all the same
C14_Witness ==
    /\ pc = "return"
    /\ Len(output) = 1
    /\ Len(df.rows) = 4
    /\ Cardinality({i \in DOMAIN df.rows : IsNaN(df.rows[i]["daydelta_int"])}) = 1
    /\ \E i, j \in DOMAIN df.rows :
          /\ df.rows[i]["daydelta_int"] = Float(3)
          /\ df.rows[j]["daydelta_int"] = Float(4)

=============================================================================
